---- MODULE Spec2Model ----
(***************************************************************************)
(* A model of the RSX parser of syn-rsx (src/src/parser.rs, src/src/lib.rs).*)
(*                                                                         *)
(* The input is a proc-macro token sequence.  A token is a string:         *)
(*   "<" ">" "/" "=" "-"   punctuation characters (spacing Alone)           *)
(*   ":"                   a colon with spacing Alone                       *)
(*   ":j"                  a colon with spacing Joint (first half of `::`)  *)
(*   "a" "b" "type"        identifiers ("type" is a reserved keyword)       *)
(*   "lit"                 a string literal                                 *)
(*   "{e}"                 a brace group holding a valid block body that is *)
(*                         not a struct field list, e.g. { 1 }              *)
(*   "{!}"                 a brace group whose content is no block body     *)
(* A cursor is an index into the sequence, Len+1 being the end.  Every     *)
(* grammar rule is an operator from (tokens, cursor) to a result record    *)
(* whose field pos is the position of the cursor the rule was given after  *)
(* the call, on success and on failure alike.                              *)
(***************************************************************************)
EXTENDS Integers, Sequences, FiniteSets, TLC

VARIABLES
  tokens,    \* the token stream handed to parse2
  flatten,   \* ParserConfig.flatten
  alt,       \* the stream and configuration of the next call of parse2
  run,       \* 1 during the first call of parse2, 2 during the second
  status,    \* "run" while parsing, "ok" / "err" once parse has returned
  err,       \* the message of the error returned, "" if none
  cursor,    \* position of the top-level ParseStream `input` of parse
  stack,     \* one frame per element() call in progress, innermost last
  nodes,     \* the `nodes` vector of parse
  result,    \* the Vec<Node> returned by parse (<<>> unless status = "ok")
  prev,      \* what the first call of parse2 returned
  nameRes,   \* result of the last direct call of node_name
  attrRes,   \* result of the last direct call of attribute
  tagRes     \* result of the last direct call of tag_open

vars == <<tokens, flatten, alt, run, status, err, cursor, stack, nodes,
          result, prev, nameRes, attrRes, tagRes>>

(***************************************************************************)
(* Tokens and the cursor primitives of syn.                                *)
(***************************************************************************)
Idents == {"a", "b", "type"}

Puncts == {"<", ">", "/", "=", "-", ":", ":j"}

IsIdent(t) == t \in Idents

\* The character of a punctuation token (the two colons differ in spacing).
Char(t) == IF t = ":j" THEN ":" ELSE t

is_empty(toks, p) == p > Len(toks)

At(toks, p) == IF p \in 1..Len(toks) THEN toks[p] ELSE "EOF"

\* syn's peek of a one-character punctuation token: the spacing of the last
\* character is not looked at, so `:` also matches the first half of `::`.
peek_punct(toks, p, ch) == At(toks, p) \in Puncts /\ Char(At(toks, p)) = ch

\* syn's peek of Token![::]: a Joint colon followed by a colon.
peek_colon2(toks, p) == At(toks, p) = ":j" /\ peek_punct(toks, p + 1, ":")

Ok(p, v) == [ok |-> TRUE, pos |-> p, val |-> v, err |-> ""]

Err(p, msg) == [ok |-> FALSE, pos |-> p, val |-> <<>>, err |-> msg]

(***************************************************************************)
(* Node names.  A NodeName is a record: kind "Path", "Dash" or "Colon",    *)
(* the identifiers in order, whether a path has a leading `::`, and        *)
(* whether the Punctuated list ends in a separator.                        *)
(***************************************************************************)
NodeName(kind, leading, segs, trailing) ==
  [kind |-> kind, leading |-> leading, segs |-> segs, trailing |-> trailing]

NoName == NodeName("None", FALSE, <<>>, FALSE)

InvalidNodeName == "invalid node name"

\* The while loop of node_name_punctuated_ident on the fork, from position q
\* with the identifiers pushed so far.  Leaving by the loop condition after a
\* push_punct leaves the separator as trailing punctuation.
RECURSIVE punctuated_loop(_, _, _, _)
punctuated_loop(toks, q, punct, segs) ==
  IF ~is_empty(toks, q) /\ IsIdent(At(toks, q))
  THEN IF peek_punct(toks, q + 1, punct)
       THEN punctuated_loop(toks, q + 2, punct, Append(segs, toks[q]))
       ELSE [pos |-> q + 1, segs |-> Append(segs, toks[q]), trailing |-> FALSE]
  ELSE [pos |-> q, segs |-> segs, trailing |-> Len(segs) > 0]

\* Punctuated::len counts the values: fewer than two is a failure.  A
\* plausible slip: the fork is not used, so a failed attempt leaves the
\* caller's cursor where the loop stopped.
punctuated_result_nofork(p, kind, l) ==
  IF Len(l.segs) > 1
  THEN Ok(l.pos, NodeName(kind, FALSE, l.segs, l.trailing))
  ELSE Err(l.pos, "expected punctuated node name")

\* A plausible slip: one identifier is enough.
punctuated_result_offbyone(p, kind, l) ==
  IF Len(l.segs) > 0
  THEN Ok(l.pos, NodeName(kind, FALSE, l.segs, l.trailing))
  ELSE Err(p, "expected punctuated node name")

\* The end of node_name_punctuated_ident, l being what the loop left: the
\* input advances to the fork on success; on failure the fork is dropped and
\* the caller's cursor stays at p.
punctuated_result(p, kind, l) ==
  IF Len(l.segs) > 1
  THEN Ok(l.pos, NodeName(kind, FALSE, l.segs, l.trailing))
  ELSE Err(p, "expected punctuated node name")

node_name_punctuated_ident(toks, p, punct, kind) ==
  punctuated_result(p, kind, punctuated_loop(toks, p, punct, <<>>))

\* The segments loop of node_name_mod_style.
RECURSIVE mod_style_loop(_, _, _)
mod_style_loop(toks, q, segs) ==
  IF ~IsIdent(At(toks, q))
  THEN [pos |-> q, segs |-> segs, trailing |-> Len(segs) > 0]
  ELSE IF ~peek_colon2(toks, q + 1)
       THEN [pos |-> q + 1, segs |-> Append(segs, toks[q]), trailing |-> FALSE]
       ELSE mod_style_loop(toks, q + 3, Append(segs, toks[q]))

\* The end of node_name_mod_style, l being what the loop left.
mod_style_result(p, leading, l) ==
  IF Len(l.segs) = 0 THEN Err(p, "expected path")
  ELSE IF l.trailing THEN Err(p, "expected path segment")
  ELSE Ok(l.pos, NodeName("Path", leading, l.segs, FALSE))

\* An optional leading `::`, then the segments, all on a fork.
node_name_mod_style(toks, p) ==
  IF peek_colon2(toks, p)
  THEN mod_style_result(p, TRUE, mod_style_loop(toks, p + 2, <<>>))
  ELSE mod_style_result(p, FALSE, mod_style_loop(toks, p, <<>>))

\* .or(Err(input.error("invalid node name")))
node_name_or_error(path) ==
  IF path.ok THEN path ELSE Err(path.pos, InvalidNodeName)

\* .or_else(|_| self.node_name_mod_style(input)), at the position the failed
\* Colon attempt left the cursor.
node_name_or_path(toks, colon) ==
  IF colon.ok THEN colon
  ELSE node_name_or_error(node_name_mod_style(toks, colon.pos))

\* .or_else(|_| ..Colon..), at the position the failed Dash attempt left the
\* cursor.
node_name_or_colon(toks, dash) ==
  IF dash.ok THEN dash
  ELSE node_name_or_path(toks,
         node_name_punctuated_ident(toks, dash.pos, ":", "Colon"))

node_name(toks, p) ==
  node_name_or_colon(toks, node_name_punctuated_ident(toks, p, "-", "Dash"))

(***************************************************************************)
(* Nodes.                                                                  *)
(***************************************************************************)
NoValue == [some |-> FALSE, toks |-> <<>>]

SomeValue(ts) == [some |-> TRUE, toks |-> ts]

Node(type, name, value, attributes, children) ==
  [node_type |-> type, name |-> name, value |-> value,
   attributes |-> attributes, children |-> children]

(***************************************************************************)
(* Text and block nodes.                                                   *)
(***************************************************************************)
\* A plausible slip: the literal is read but the cursor is not advanced.
text_nostep(toks, p) ==
  IF At(toks, p) = "lit"
  THEN Ok(p, Node("Text", NoName, SomeValue(<<toks[p]>>), <<>>, <<>>))
  ELSE Err(p, "expected literal")

\* input.parse::<ExprLit>(): one literal token, taken in a single cursor step.
text(toks, p) ==
  IF At(toks, p) = "lit"
  THEN Ok(p + 1, Node("Text", NoName, SomeValue(<<toks[p]>>), <<>>, <<>>))
  ELSE Err(p, "expected literal")

\* One token tree is taken from a fork and parsed on its own as an ExprBlock;
\* the input advances to the fork only when that succeeded.
block_expr(toks, p) ==
  IF is_empty(toks, p) THEN Err(p, "unexpected end of input")
  ELSE IF toks[p] = "{e}" THEN Ok(p + 1, SomeValue(<<toks[p]>>))
  ELSE Err(p, "expected block")

block_node(b) ==
  IF b.ok THEN Ok(b.pos, Node("Block", NoName, b.val, <<>>, <<>>)) ELSE b

block(toks, p) == block_node(block_expr(toks, p))

(***************************************************************************)
(* The value of an attribute: fork.parse::<Expr>().  syn's expression      *)
(* grammar restricted to the tokens of the model: an operand is a literal, *)
(* a path of plain identifiers, a block, or `-` and an operand; operands   *)
(* are joined by the binary operators - / < > and by assignment =.  A path *)
(* followed by a brace group is read as a struct literal, which "{e}" and  *)
(* "{!}" are not.  0 stands for a parse error.                             *)
(***************************************************************************)
RECURSIVE expr_path(_, _)
expr_path(toks, q) ==
  IF ~IsIdent(At(toks, q)) \/ At(toks, q) = "type" THEN 0
  ELSE IF peek_colon2(toks, q + 1) THEN expr_path(toks, q + 3)
  ELSE IF At(toks, q + 1) \in {"{e}", "{!}"} THEN 0
  ELSE q + 1

RECURSIVE expr_unary(_, _)
expr_unary(toks, q) ==
  IF At(toks, q) = "-" THEN expr_unary(toks, q + 1)
  ELSE IF At(toks, q) = "lit" THEN q + 1
  ELSE IF At(toks, q) = "{e}" THEN q + 1
  ELSE IF peek_colon2(toks, q) THEN expr_path(toks, q + 2)
  ELSE expr_path(toks, q)

RECURSIVE expr_tail(_, _)
RECURSIVE expr_rhs(_, _)
expr_rhs(toks, rhs) == IF rhs = 0 THEN 0 ELSE expr_tail(toks, rhs)

expr_tail(toks, q) ==
  IF At(toks, q) \in {"-", "/", "<", ">", "="}
  THEN expr_rhs(toks, expr_unary(toks, q + 1))
  ELSE q

expr_result(toks, p, e) ==
  IF e = 0 THEN Err(p, "expected expression")
  ELSE Ok(e, SomeValue(SubSeq(toks, p, e - 1)))

expr_operands(toks, p, lhs) ==
  IF lhs = 0 THEN expr_result(toks, p, 0)
  ELSE expr_result(toks, p, expr_tail(toks, lhs))

expr(toks, p) == expr_operands(toks, p, expr_unary(toks, p))

(***************************************************************************)
(* Tags and attributes.                                                    *)
(***************************************************************************)
\* A plausible slip: the `/` is parsed but not reported.
tag_open_end_gt_notself(toks, p, q) ==
  IF peek_punct(toks, q, ">") THEN Ok(q + 1, FALSE)
  ELSE Err(q, "expected >")

\* input.parse::<Token![>]>() at q, the cursor behind the optional `/`.
tag_open_end_gt(toks, p, q) ==
  IF peek_punct(toks, q, ">") THEN Ok(q + 1, q # p)
  ELSE Err(q, "expected >")

\* An optional `/` is taken from the input itself, then `>` is required: on
\* failure the cursor stays behind the `/` it took.
tag_open_end(toks, p) ==
  tag_open_end_gt(toks, p, IF peek_punct(toks, p, "/") THEN p + 1 ELSE p)

\* The end of tag_close: `>` behind the name.
tag_close_gt(toks, name) ==
  IF ~name.ok THEN name
  ELSE IF ~peek_punct(toks, name.pos, ">") THEN Err(name.pos, "expected >")
  ELSE Ok(name.pos + 1, name.val)

tag_close(toks, p) ==
  IF ~peek_punct(toks, p, "<") THEN Err(p, "expected <")
  ELSE IF ~peek_punct(toks, p + 1, "/") THEN Err(p + 1, "expected /")
  ELSE tag_close_gt(toks, node_name(toks, p + 2))

\* The end of attribute: the input advances to the fork.
attribute_result(p, key, value) ==
  IF ~value.ok THEN Err(p, value.err)
  ELSE Ok(value.pos, [key |-> key.val, value |-> value.val])

\* attribute behind the key: an optional `=` and then a block or an
\* expression.
attribute_value(toks, p, key) ==
  IF ~key.ok THEN Err(p, key.err)
  ELSE IF ~peek_punct(toks, key.pos, "=")
       THEN attribute_result(p, key, Ok(key.pos, NoValue))
  ELSE IF At(toks, key.pos + 1) \in {"{e}", "{!}"}
       THEN attribute_result(p, key, block_expr(toks, key.pos + 1))
  ELSE attribute_result(p, key, expr(toks, key.pos + 1))

\* Everything is parsed on a fork; a failure leaves the input at p.
attribute(toks, p) == attribute_value(toks, p, node_name(toks, p))

AttributeNode(kv) == Node("Attribute", kv.key, kv.value, <<>>, <<>>)

\* The `while let Ok(..)` loop of attributes, a being what attribute
\* returned: a failed attribute ends the loop with the nodes collected.
RECURSIVE attributes_loop(_, _, _)
RECURSIVE attributes_body(_, _, _)
attributes_body(toks, acc, a) ==
  IF ~a.ok THEN Ok(a.pos, acc)
  ELSE IF is_empty(toks, a.pos) THEN Ok(a.pos, Append(acc, AttributeNode(a.val)))
  ELSE attributes_loop(toks, a.pos, Append(acc, AttributeNode(a.val)))

attributes_loop(toks, q, acc) == attributes_body(toks, acc, attribute(toks, q))

attributes(toks, p) ==
  IF is_empty(toks, p) THEN Ok(p, <<>>) ELSE attributes_loop(toks, p, <<>>)

\* A plausible slip: the attribute parser is run on the span without parse2's
\* check that the span was parsed to its end.
parse2_unchecked(stream, r) == r

\* Parser::parse2, r being what the parser returned on the stream: a stream
\* that was not parsed to its end is refused.
parse2(stream, r) ==
  IF ~r.ok THEN r
  ELSE IF ~is_empty(stream, r.pos) THEN Err(r.pos, "unexpected token")
  ELSE r

\* The loop of tag_open that finds the end of the open tag, e being what
\* tag_open_end returned: where it failed, the next token tree is taken into
\* the span from where the failed attempt left the cursor.
RECURSIVE tag_open_loop(_, _, _)
RECURSIVE tag_open_body(_, _, _)
tag_open_body(toks, span, e) ==
  IF e.ok THEN Ok(e.pos, [selfclosing |-> e.val, span |-> span])
  ELSE IF is_empty(toks, e.pos) THEN Err(e.pos, "unexpected end of input")
  ELSE tag_open_loop(toks, e.pos + 1, Append(span, toks[e.pos]))

tag_open_loop(toks, q, span) == tag_open_body(toks, span, tag_open_end(toks, q))

\* What the loop found, with the name in front.
tag_open_span(name, l) ==
  IF ~l.ok THEN l
  ELSE Ok(l.pos, [name |-> name.val, span |-> l.val.span,
                  selfclosing |-> l.val.selfclosing])

tag_open_name(toks, name) ==
  IF ~name.ok THEN name
  ELSE tag_open_span(name, tag_open_loop(toks, name.pos, <<>>))

\* tag_open up to the captured span: `<`, the name, the loop.
tag_open_scan(toks, p) ==
  IF ~peek_punct(toks, p, "<") THEN Err(p, "expected <")
  ELSE tag_open_name(toks, node_name(toks, p + 1))

\* The end of tag_open, a being what parse2 returned for the span.
tag_open_tag(s, a) ==
  IF ~a.ok THEN Err(s.pos, a.err)
  ELSE Ok(s.pos, [name |-> s.val.name, attributes |-> a.val,
                  selfclosing |-> s.val.selfclosing])

\* parser.parse2(attributes): the attribute parser on the captured span as a
\* stream of its own.
tag_open_attributes(s) ==
  IF ~s.ok THEN s
  ELSE tag_open_tag(s, parse2(s.val.span, attributes(s.val.span, 1)))

tag_open(toks, p) == tag_open_attributes(tag_open_scan(toks, p))

(***************************************************************************)
(* The tree builder: parse, node, element and has_children as a machine.   *)
(* The call stack of element() is the variable stack; a frame holds the    *)
(* position of the caller's cursor when element was called (input), the    *)
(* element's own fork, the parsed open tag and the children so far.  One   *)
(* step is one pass through the loop of parse or of element.  When parse   *)
(* fails, stack keeps the calls that were in progress.                     *)
(***************************************************************************)
OpenTagError == "open tag has no corresponding close tag"

CloseTagError == "close tag has no corresponding open tag"

\* NodeName's PartialEq: the same variant holding the same names.
NodeNameEq(n, m) == n = m

\* A plausible slip: any close tag is taken for the element's own.
has_children_probe_anyclose(name, p, c) ==
  IF c.ok THEN Ok(p, FALSE) ELSE Ok(p, TRUE)

\* has_children behind the emptiness check, c being what tag_close returned
\* on a fork of its own, which is then dropped.
has_children_probe(name, p, c) ==
  IF c.ok
  THEN IF NodeNameEq(name, c.val) THEN Ok(p, FALSE) ELSE Err(p, CloseTagError)
  ELSE Ok(p, TRUE)

\* A plausible slip: the check for exhausted input is left out.
has_children_noemptycheck(name, toks, p) ==
  has_children_probe(name, p, tag_close(toks, p))

has_children(name, toks, p) ==
  IF is_empty(toks, p) THEN Err(p, OpenTagError)
  ELSE has_children_probe(name, p, tag_close(toks, p))

\* A plausible slip: the children are copied out but not taken out of the node.
node_result_keepchildren(n) ==
  IF flatten THEN <<n>> \o n.children ELSE <<n>>

\* What node returns for the node it parsed: with flatten, the node's
\* children are moved out of it and follow it in the list.
node_result(n) ==
  IF flatten THEN <<[n EXCEPT !.children = <<>>]>> \o n.children ELSE <<n>>

Frame(input, fork, tag) ==
  [input |-> input, fork |-> fork, name |-> tag.name,
   attributes |-> tag.attributes, children |-> <<>>]

Top == stack[Len(stack)]

\* The cursor of the innermost call in progress.
Cur == IF stack = <<>> THEN cursor ELSE Top.fork

\* The loop of parse, or of the innermost element, is about to call node.
ReadyForNode ==
  /\ status = "run"
  /\ IF stack = <<>> THEN ~is_empty(tokens, cursor)
     ELSE LET h == has_children(Top.name, tokens, Top.fork) IN h.ok /\ h.val

\* The three attempts of node, each at the position the one before left.
TryText == text(tokens, Cur)

TryBlock == block(tokens, TryText.pos)

ElementInput == TryBlock.pos

\* node returns ns with its cursor at p: the innermost call in progress
\* appends ns to its children (parse: to its nodes).
Deliver(stk, ns, p) ==
  IF stk = <<>>
  THEN /\ cursor' = p
       /\ nodes' = nodes \o ns
       /\ stack' = stk
  ELSE /\ stack' = [stk EXCEPT ![Len(stk)].fork = p,
                               ![Len(stk)].children = @ \o ns]
       /\ UNCHANGED <<cursor, nodes>>

\* The cursor of the innermost call in progress is left at p.
Moved(p) ==
  IF stack = <<>>
  THEN cursor' = p /\ stack' = stack
  ELSE cursor' = cursor /\ stack' = [stack EXCEPT ![Len(stack)].fork = p]

\* parse returns the error: every call in progress returns it with `?`.
Fail(msg, p) ==
  /\ status' = "err"
  /\ err' = msg
  /\ Moved(p)
  /\ UNCHANGED <<nodes, result>>

Frozen == UNCHANGED <<tokens, flatten, alt, run, prev, nameRes, attrRes, tagRes>>

\* parse: the input is at its end.
ParseDone ==
  /\ status = "run" /\ stack = <<>> /\ is_empty(tokens, cursor)
  /\ status' = "ok"
  /\ result' = nodes
  /\ UNCHANGED <<err, cursor, stack, nodes>>
  /\ Frozen

NodeText ==
  /\ ReadyForNode /\ TryText.ok
  /\ Deliver(stack, node_result(TryText.val), TryText.pos)
  /\ UNCHANGED <<status, err, result>>
  /\ Frozen

NodeBlock ==
  /\ ReadyForNode /\ ~TryText.ok /\ TryBlock.ok
  /\ Deliver(stack, node_result(TryBlock.val), TryBlock.pos)
  /\ UNCHANGED <<status, err, result>>
  /\ Frozen

\* element: a close tag parses where the element should start.
ElementStrayClose ==
  /\ ReadyForNode /\ ~TryText.ok /\ ~TryBlock.ok
  /\ tag_close(tokens, ElementInput).ok
  /\ Fail(CloseTagError, ElementInput)
  /\ Frozen

\* element: tag_open(fork) fails.
ElementOpenError ==
  /\ ReadyForNode /\ ~TryText.ok /\ ~TryBlock.ok
  /\ ~tag_close(tokens, ElementInput).ok
  /\ ~tag_open(tokens, ElementInput).ok
  /\ Fail(tag_open(tokens, ElementInput).err, ElementInput)
  /\ Frozen

\* element: a self-closing open tag; the input advances to the fork.
ElementSelfClosing ==
  LET o == tag_open(tokens, ElementInput) IN
  /\ ReadyForNode /\ ~TryText.ok /\ ~TryBlock.ok
  /\ ~tag_close(tokens, ElementInput).ok
  /\ o.ok /\ o.val.selfclosing
  /\ Deliver(stack,
             node_result(Node("Element", o.val.name, NoValue, o.val.attributes, <<>>)),
             o.pos)
  /\ UNCHANGED <<status, err, result>>
  /\ Frozen

\* element: an open tag; the children loop starts on the fork.
ElementOpen ==
  LET o == tag_open(tokens, ElementInput) IN
  /\ ReadyForNode /\ ~TryText.ok /\ ~TryBlock.ok
  /\ ~tag_close(tokens, ElementInput).ok
  /\ o.ok /\ ~o.val.selfclosing
  /\ IF stack = <<>>
     THEN /\ cursor' = ElementInput
          /\ stack' = <<Frame(ElementInput, o.pos, o.val)>>
     ELSE /\ cursor' = cursor
          /\ stack' = Append([stack EXCEPT ![Len(stack)].fork = ElementInput],
                             Frame(ElementInput, o.pos, o.val))
  /\ UNCHANGED <<status, err, nodes, result>>
  /\ Frozen

\* has_children: the input ended inside the element.
HasChildrenEmpty ==
  /\ status = "run" /\ stack # <<>>
  /\ is_empty(tokens, Top.fork)
  /\ ~has_children(Top.name, tokens, Top.fork).ok
  /\ Fail(has_children(Top.name, tokens, Top.fork).err,
          has_children(Top.name, tokens, Top.fork).pos)
  /\ Frozen

\* has_children: a close tag with another name.
HasChildrenMismatch ==
  /\ status = "run" /\ stack # <<>>
  /\ ~is_empty(tokens, Top.fork)
  /\ ~has_children(Top.name, tokens, Top.fork).ok
  /\ Fail(has_children(Top.name, tokens, Top.fork).err,
          has_children(Top.name, tokens, Top.fork).pos)
  /\ Frozen

\* has_children answers false: the close tag is consumed from the fork, the
\* input advances to the fork, and node hands the element to the caller.
ElementClose ==
  LET h == has_children(Top.name, tokens, Top.fork)
      c == tag_close(tokens, Top.fork)
      n == Node("Element", Top.name, NoValue, Top.attributes, Top.children)
  IN  /\ status = "run" /\ stack # <<>>
      /\ h.ok /\ ~h.val
      /\ IF c.ok
         THEN /\ Deliver(SubSeq(stack, 1, Len(stack) - 1), node_result(n), c.pos)
              /\ UNCHANGED <<status, err, result>>
         ELSE Fail(c.err, c.pos)
      /\ Frozen

\* parse2 is called again, on the stream and with the configuration of alt.
Reparse ==
  /\ status \in {"ok", "err"} /\ run = 1
  /\ prev' = [ok |-> status = "ok", nodes |-> result, err |-> err]
  /\ tokens' = alt.tokens
  /\ flatten' = alt.flatten
  /\ run' = 2
  /\ status' = "run" /\ err' = "" /\ cursor' = 1
  /\ stack' = <<>> /\ nodes' = <<>> /\ result' = <<>>
  /\ UNCHANGED <<alt, nameRes, attrRes, tagRes>>

Next ==
  \/ ParseDone
  \/ NodeText
  \/ NodeBlock
  \/ ElementStrayClose
  \/ ElementOpenError
  \/ ElementSelfClosing
  \/ ElementOpen
  \/ HasChildrenEmpty
  \/ HasChildrenMismatch
  \/ ElementClose
  \/ Reparse

(***************************************************************************)
(* Direct calls of the grammar rules on a stream that starts with `<`:     *)
(* tag_open at the start, node_name and attribute behind the `<`.          *)
(***************************************************************************)
NotCalled == [called |-> FALSE]

CallNodeName ==
  /\ status = "idle" /\ ~nameRes.called
  /\ nameRes' = [called |-> TRUE, res |-> node_name(tokens, 2)]
  /\ UNCHANGED <<tokens, flatten, alt, run, status, err, cursor, stack, nodes,
                 result, prev, attrRes, tagRes>>

CallAttribute ==
  /\ status = "idle" /\ ~attrRes.called
  /\ attrRes' = [called |-> TRUE, res |-> attribute(tokens, 2)]
  /\ UNCHANGED <<tokens, flatten, alt, run, status, err, cursor, stack, nodes,
                 result, prev, nameRes, tagRes>>

CallTagOpen ==
  /\ status = "idle" /\ ~tagRes.called
  /\ tagRes' = [called |-> TRUE, scan |-> tag_open_scan(tokens, 1),
                res |-> tag_open(tokens, 1)]
  /\ UNCHANGED <<tokens, flatten, alt, run, status, err, cursor, stack, nodes,
                 result, prev, nameRes, attrRes>>

NextName == CallNodeName \/ CallAttribute \/ CallTagOpen

NextTag == CallTagOpen

(***************************************************************************)
(* Inputs.                                                                 *)
(***************************************************************************)
MaxChunks == 4

MaxRaw == 4

MaxNameLen == 5

MaxTagLen == 5

MaxAttrLen == 3

SeqsUpTo(S, n) == UNION {[1..k -> S] : k \in 0..n}

RECURSIVE Concat(_)
Concat(ss) == IF ss = <<>> THEN <<>> ELSE Head(ss) \o Concat(Tail(ss))

\* A Joint colon is followed by another punctuation character.
WellSpaced(toks) ==
  \A i \in 1..Len(toks) : toks[i] = ":j" => At(toks, i + 1) \in Puncts

OpenTag(n) == <<"<">> \o n \o <<">">>

CloseTag(n) == <<"<", "/">> \o n \o <<">">>

SelfClosingTag(n) == <<"<">> \o n \o <<"/", ">">>

\* Pieces of markup: tags of elements a and b, an open tag of b with the
\* attribute a, a text, a block, and a `>` that belongs to nothing.
ChunkSet ==
  {OpenTag(<<"a">>), OpenTag(<<"b">>), CloseTag(<<"a">>), CloseTag(<<"b">>),
   SelfClosingTag(<<"a">>), OpenTag(<<"b", "a">>), <<"lit">>, <<"{e}">>, <<">">>}

RawAlphabet == {"<", ">", "/", "a", "b", "lit", "{e}", "-", ":"}

\* The document of test_flat_tree, with a for div.
TestDoc ==
  Concat(<<OpenTag(<<"a">>), OpenTag(<<"a">>),
           OpenTag(<<"a">>), <<"{e}">>, CloseTag(<<"a">>),
           OpenTag(<<"a">>), <<"lit">>, CloseTag(<<"a">>),
           CloseTag(<<"a">>), CloseTag(<<"a">>), SelfClosingTag(<<"a">>)>>)

Examples ==
  {TestDoc,
   SelfClosingTag(<<"a", ":j", ":", "b">>),
   OpenTag(<<"a", "-", "b">>) \o <<"lit">> \o CloseTag(<<"a", "-", "b">>),
   OpenTag(<<"a", ":", "b">>) \o CloseTag(<<"a", "-", "b">>),
   OpenTag(<<"a", "b", "=", "lit", "b", "=", "{e}">>) \o <<"{!}">>,
   OpenTag(<<"a">>) \o OpenTag(<<"b">>) \o <<"lit">> \o CloseTag(<<"b">>)
     \o SelfClosingTag(<<"b", "a", "=", "lit">>) \o CloseTag(<<"a">>)}

Inputs ==
  {Concat(cs) : cs \in SeqsUpTo(ChunkSet, MaxChunks)}
    \cup SeqsUpTo(RawAlphabet, MaxRaw) \cup Examples

NameAlphabet == {"a", "type", "-", ":", ":j", ">"}

NameInputs ==
  {<<"<">> \o s : s \in {t \in SeqsUpTo(NameAlphabet, MaxNameLen) : WellSpaced(t)}}

TagAlphabet == {"a", "b", "=", "lit", "{e}", "/", ">", "-"}

TagInputs ==
  {<<"<">> \o s : s \in SeqsUpTo(TagAlphabet, MaxTagLen)}
    \cup {OpenTag(<<"a", "b", "=", "lit", "/", "b">>),
          OpenTag(<<"a", "b", "=", "lit", "/", "lit">>)}

FormNames ==
  {<<"a">>, <<"type">>, <<"a", "-", "b">>, <<"a", ":", "b">>,
   <<"a", ":j", ":", "b">>}

\* Attributes as the tests of lib.rs write them: a bare name, a literal, a
\* block, a dashed name, an expression with an operator.
FormAttrs ==
  {<<"a">>, <<"b", "=", "lit">>, <<"a", "=", "{e}">>,
   <<"a", "-", "b", "=", "lit">>, <<"b", "=", "lit", "/", "lit">>}

AttrLists == {Concat(l) : l \in SeqsUpTo(FormAttrs, MaxAttrLen)}

\* What stands before and behind the tag: nothing, a text and a block, the
\* tags of an element b, an open tag of b that is never closed, a close tag
\* with no open tag, an open tag of b closed under another name.
FormContexts ==
  {[pre |-> <<>>, post |-> <<>>],
   [pre |-> <<"lit">>, post |-> <<"{e}">>],
   [pre |-> OpenTag(<<"b">>), post |-> CloseTag(<<"b">>)],
   [pre |-> OpenTag(<<"b">>), post |-> <<>>],
   [pre |-> <<>>, post |-> CloseTag(<<"b">>)],
   [pre |-> OpenTag(<<"b">>), post |-> CloseTag(<<"b", "-", "a">>)]}

(***************************************************************************)
(* Specifications.                                                         *)
(***************************************************************************)
NoOutcome == [ok |-> FALSE, nodes |-> <<>>, err |-> ""]

Start(st) ==
  /\ run = 1 /\ status = st /\ err = "" /\ cursor = 1
  /\ stack = <<>> /\ nodes = <<>> /\ result = <<>> /\ prev = NoOutcome
  /\ nameRes = NotCalled /\ attrRes = NotCalled /\ tagRes = NotCalled

\* parse2 with the default configuration, then with flatten, on one stream.
Init ==
  /\ tokens \in Inputs
  /\ flatten = FALSE
  /\ alt = [tokens |-> tokens, flatten |-> TRUE]
  /\ Start("run")

\* parse2 on a document with a self-closing tag, then on the same document
\* with that tag closed by a close tag.
InitForms ==
  /\ \E n \in FormNames, a \in AttrLists,
        c \in FormContexts, f \in BOOLEAN :
       /\ tokens = c.pre \o SelfClosingTag(n \o a) \o c.post
       /\ flatten = f
       /\ alt = [tokens |-> c.pre \o OpenTag(n \o a) \o CloseTag(n) \o c.post,
                 flatten |-> f]
  /\ Start("run")

InitName ==
  /\ tokens \in NameInputs
  /\ flatten = FALSE
  /\ alt = [tokens |-> tokens, flatten |-> FALSE]
  /\ Start("idle")

InitTag ==
  /\ tokens \in TagInputs
  /\ flatten = FALSE
  /\ alt = [tokens |-> tokens, flatten |-> FALSE]
  /\ Start("idle")

Spec == Init /\ [][Next]_vars

SpecForms == InitForms /\ [][Next]_vars

SpecName == InitName /\ [][NextName]_vars

SpecTag == InitTag /\ [][NextTag]_vars

(***************************************************************************)
(* Claims.                                                                 *)
(***************************************************************************)
Done == status \in {"ok", "err"}

\* The stream of InitForms starts with the tag.
TagFirst == At(alt.tokens, 1) = "<" /\ At(alt.tokens, 2) # "b"

EmptyElement(n) ==
  n.node_type = "Element" /\ n.children = <<>> /\ n.value = NoValue

\* C5: a document with the self-closing tag <N A /> parses as the document
\* with <N A></N> in its place does: both fail or both return the same nodes,
\* the tag giving an Element with no children and no value; the cursor ends
\* behind the input, and no children loop is ever entered for the tag.
C5_SelfClosingAsEmptyElement ==
  /\ (run = 2 /\ Done) =>
       /\ prev.ok = (status = "ok")
       /\ status = "ok" =>
            /\ result = prev.nodes
            /\ TagFirst => EmptyElement(result[1])
  /\ (run = 1 /\ TagFirst) => stack = <<>>
  /\ (run = 1 /\ status = "ok") => cursor = Len(tokens) + 1

C5_Witness ==
  /\ run = 2 /\ status = "ok" /\ TagFirst
  /\ Len(result) = 1 /\ Len(result[1].attributes) = 2

\* The separators of names as the grammar writes them.
Step(sep) == IF sep = "::" THEN 3 ELSE 2

SepAt(toks, p, sep) ==
  IF sep = "::" THEN peek_colon2(toks, p) ELSE peek_punct(toks, p, sep)

\* n identifiers joined by sep stand at p.
Joined(toks, p, n, sep) ==
  \A i \in 1..n :
    /\ IsIdent(At(toks, p + (i - 1) * Step(sep)))
    /\ i < n => SepAt(toks, p + (i - 1) * Step(sep) + 1, sep)

\* The greatest such n, and the identifiers.
Longest(toks, p, sep) ==
  CHOOSE n \in 0..Len(toks) :
    Joined(toks, p, n, sep) /\ ~Joined(toks, p, n + 1, sep)

Segs(toks, p, n, sep) == [i \in 1..n |-> toks[p + (i - 1) * Step(sep)]]

\* Where the segments of a path start, behind an optional leading `::`.
PathStart(toks, p) == IF peek_colon2(toks, p) THEN p + 2 ELSE p

\* A path of m segments at p is followed by `::`.
PathTrails(toks, p, m) == peek_colon2(toks, PathStart(toks, p) + 3 * m - 2)

\* r is the result for a name at p with d identifiers joined by `-`, c
\* joined by `:` and m joined by `::`.
Classified(toks, p, r, d, c, m) ==
  IF d >= 2
  THEN r.ok /\ r.val.kind = "Dash" /\ r.val.segs = Segs(toks, p, d, "-")
  ELSE IF c >= 2
  THEN r.ok /\ r.val.kind = "Colon" /\ r.val.segs = Segs(toks, p, c, ":")
  ELSE IF m >= 1 /\ ~PathTrails(toks, p, m)
  THEN /\ r.ok /\ r.val.kind = "Path"
       /\ r.val.segs = Segs(toks, PathStart(toks, p), m, "::")
       /\ r.val.leading = peek_colon2(toks, p)
  ELSE ~r.ok /\ r.err = InvalidNodeName

ClassifiedAt(toks, p, r) ==
  Classified(toks, p, r, Longest(toks, p, "-"), Longest(toks, p, ":"),
             Longest(toks, PathStart(toks, p), "::"))

\* The key of an attribute as a node_name result.
KeyOf(a) == IF a.ok THEN [ok |-> TRUE, val |-> a.val.key, err |-> ""] ELSE a

\* C4: node_name returns Dash for two or more identifiers joined by `-`,
\* else Colon for two or more joined by `:`, else Path for one or more
\* joined by `::` (one identifier, a keyword included, is a Path of one
\* segment), else the error "invalid node name"; the name of an element and
\* the key of an attribute are classified alike.
C4_NameClassification ==
  /\ nameRes.called => ClassifiedAt(tokens, 2, nameRes.res)
  /\ attrRes.called =>
       \/ ClassifiedAt(tokens, 2, KeyOf(attrRes.res))
       \/ ~attrRes.res.ok /\ attrRes.res.err # InvalidNodeName

C4_Witness ==
  /\ nameRes.called /\ attrRes.called
  /\ nameRes.res.ok /\ nameRes.res.val.kind = "Colon"
  /\ attrRes.res.ok /\ attrRes.res.val.key = nameRes.res.val
  /\ nameRes.res.val.segs = <<"type", "a">>

\* C9: every name node_name returns is well formed: n identifiers (two or
\* more for Dash and Colon, one or more for Path) and n-1 separators, none
\* trailing, are what the name holds and what the cursor has passed.
C9_WellFormedName ==
  (nameRes.called /\ nameRes.res.ok) =>
    /\ ~nameRes.res.val.trailing
    /\ nameRes.res.val.kind \in {"Dash", "Colon"} =>
         /\ Len(nameRes.res.val.segs) >= 2
         /\ nameRes.res.pos = 2 + 2 * Len(nameRes.res.val.segs) - 1
    /\ nameRes.res.val.kind = "Path" => Len(nameRes.res.val.segs) >= 1

\* The characters of a token sequence, spacing set aside.
Chars(toks) == [i \in 1..Len(toks) |-> Char(toks[i])]

SepToks(kind) ==
  IF kind = "Dash" THEN <<"-">>
  ELSE IF kind = "Colon" THEN <<":">> ELSE <<":", ":">>

\* The tokens a name was read from.
RECURSIVE JoinToks(_, _)
JoinToks(segs, sep) ==
  IF Len(segs) = 1 THEN segs
  ELSE <<Head(segs)>> \o sep \o JoinToks(Tail(segs), sep)

NameToks(name) ==
  (IF name.leading THEN <<":", ":">> ELSE <<>>)
    \o JoinToks(name.segs, SepToks(name.kind))
    \o (IF name.trailing THEN SepToks(name.kind) ELSE <<>>)

\* The tokens of one attribute: `name`, or `name = value`.
AttributeToks(n) ==
  NameToks(n.name)
    \o (IF n.value.some THEN <<"=">> \o Chars(n.value.toks) ELSE <<>>)

RECURSIVE AttributesToks(_)
AttributesToks(ns) ==
  IF ns = <<>> THEN <<>>
  ELSE AttributeToks(Head(ns)) \o AttributesToks(Tail(ns))

IsAttribute(n) ==
  n.node_type = "Attribute" /\ n.children = <<>> /\ n.attributes = <<>>

\* C6: when tag_open succeeds, its Attribute nodes are, in source order, the
\* `name` and `name = value` pairs that make up the whole captured span, a
\* node having a value exactly when its name is followed by `=`; a span that
\* is not made up of such pairs to its end makes tag_open fail.
C6_AttributesCoverSpan ==
  (tagRes.called /\ tagRes.res.ok) =>
    /\ tagRes.scan.ok
    /\ \A i \in 1..Len(tagRes.res.val.attributes) :
         IsAttribute(tagRes.res.val.attributes[i])
    /\ AttributesToks(tagRes.res.val.attributes) = Chars(tagRes.scan.val.span)

C6_Witness ==
  /\ tagRes.called /\ tagRes.res.ok
  /\ Len(tagRes.res.val.attributes) = 2
  /\ tagRes.res.val.attributes[1].value.some
  /\ ~tagRes.res.val.attributes[2].value.some

\* An optional `/` followed by `>` stands at q.
TerminatorAt(toks, q) ==
  \/ peek_punct(toks, q, ">")
  \/ peek_punct(toks, q, "/") /\ peek_punct(toks, q + 1, ">")

\* The first position from p on where it does.
FirstTerminator(toks, p) ==
  CHOOSE q \in p..Len(toks) :
    TerminatorAt(toks, q) /\ \A r \in p..(q - 1) : ~TerminatorAt(toks, r)

TokensUpTo(toks, p, q) == SubSeq(toks, p, q - 1)

\* C7: the span tag_open captures is every token from the end of the name up
\* to the first position where an optional `/` followed by `>` stands, in
\* order and none dropped.
C7_SpanIsAllBeforeTerminator ==
  (tagRes.called /\ tagRes.scan.ok) =>
    tagRes.scan.val.span =
      TokensUpTo(tokens, node_name(tokens, 2).pos,
                 FirstTerminator(tokens, node_name(tokens, 2).pos))

\* A close tag stands where the innermost call in progress goes on, and no
\* element is open or the innermost open element has another name.
WrongCloseTag ==
  /\ status = "run"
  /\ tag_close(tokens, Cur).ok
  /\ stack # <<>> => ~NodeNameEq(Top.name, tag_close(tokens, Cur).val)

\* C1: when a close tag is met while the innermost open element has another
\* name, or while no element is open, parse returns the error "close tag has
\* no corresponding open tag" and no nodes.
C1_WrongCloseTagIsCloseTagError ==
  [][WrongCloseTag =>
       status' = "err" /\ err' = CloseTagError /\ result' = <<>>]_vars

C1_Witness ==
  /\ status = "err" /\ err = CloseTagError
  /\ Len(stack) = 2 /\ Top.children # <<>>
  /\ tag_close(tokens, Top.fork).ok

\* The input ends where the innermost open element goes on.
EndsInsideElement ==
  stack # <<>> /\ is_empty(tokens, Top.fork)

\* No close tag with the name of the innermost open element follows.
NoCloserFollows ==
  /\ stack # <<>>
  /\ \A q \in Top.fork..Len(tokens) :
       tag_close(tokens, q).ok => ~NodeNameEq(Top.name, tag_close(tokens, q).val)

\* C2 as stated: whenever parse has returned and an element was left open for
\* which no matching close tag follows, the error is "open tag has no
\* corresponding close tag".
C2_NoCloserIsOpenTagError ==
  (Done /\ NoCloserFollows) => (status = "err" /\ err = OpenTagError)

\* C2: when the input ends inside an open element, parse returns the error
\* "open tag has no corresponding close tag", and it returns that error in
\* no other case.
C2_EndInsideElementIsOpenTagError ==
  /\ [][(status = "run" /\ EndsInsideElement) =>
          (status' = "err" /\ err' = OpenTagError /\ result' = <<>>)]_vars
  /\ [](err = OpenTagError => (status = "err" /\ EndsInsideElement))

C2_Witness ==
  /\ status = "err" /\ err = OpenTagError
  /\ Len(stack) = 2 /\ Top.children # <<>>

\* The nodes of a forest in document order, each without its children.
RECURSIVE PreOrder(_)
PreOrder(ns) ==
  IF ns = <<>> THEN <<>>
  ELSE <<[Head(ns) EXCEPT !.children = <<>>]>>
         \o PreOrder(Head(ns).children) \o PreOrder(Tail(ns))

\* The number of Text, Block and Element nodes of a forest.
RECURSIVE CountNodes(_)
CountNodes(ns) ==
  IF ns = <<>> THEN 0
  ELSE 1 + CountNodes(Head(ns).children) + CountNodes(Tail(ns))

\* The number of nodes test_flat_tree expects.
TestDocNodes == 7

\* C3: parse with flatten succeeds exactly when parse without it does on the
\* same input, and then returns the nodes of the nested result in document
\* order, each with no children and with its attributes as they were: as many
\* nodes as the nested tree has, 7 for the document of test_flat_tree.
C3_FlattenIsPreOrder ==
  (run = 2 /\ Done) =>
    /\ (status = "ok") = prev.ok
    /\ status = "ok" =>
         /\ result = PreOrder(prev.nodes)
         /\ Len(result) = CountNodes(prev.nodes)
         /\ tokens = TestDoc => Len(result) = TestDocNodes

C3_Witness ==
  /\ run = 2 /\ status = "ok" /\ tokens = TestDoc
  /\ Len(result) = TestDocNodes /\ Len(prev.nodes) = 2

Positions == 1..(Len(tokens) + 1)

\* A failed attempt leaves the cursor it was given at p.
FailsInPlace(r, p) == ~r.ok => r.pos = p

\* A successful one leaves it behind the n tokens it matched.
EndsBehind(r, p, n) == r.ok => r.pos = p + n

NameEndsBehind(r, p) ==
  r.ok => r.pos = p + Len(NameToks(r.val))

AttributeEndsBehind(r, p) ==
  r.ok => r.pos = p + Len(AttributeToks(AttributeNode(r.val)))

AttemptsAt(p) ==
  /\ FailsInPlace(text(tokens, p), p)
  /\ EndsBehind(text(tokens, p), p, 1)
  /\ FailsInPlace(block(tokens, p), p)
  /\ EndsBehind(block(tokens, p), p, 1)
  /\ FailsInPlace(node_name_punctuated_ident(tokens, p, "-", "Dash"), p)
  /\ NameEndsBehind(node_name_punctuated_ident(tokens, p, "-", "Dash"), p)
  /\ FailsInPlace(node_name_punctuated_ident(tokens, p, ":", "Colon"), p)
  /\ NameEndsBehind(node_name_punctuated_ident(tokens, p, ":", "Colon"), p)
  /\ FailsInPlace(node_name_mod_style(tokens, p), p)
  /\ NameEndsBehind(node_name_mod_style(tokens, p), p)
  /\ FailsInPlace(attribute(tokens, p), p)
  /\ AttributeEndsBehind(attribute(tokens, p), p)
  /\ has_children(NoName, tokens, p).pos = p

\* While element runs, and when it has failed, the cursor of its caller is
\* where it was when element was called.
CallersKeepCursor ==
  \A i \in 1..Len(stack) :
    stack[i].input = IF i = 1 THEN cursor ELSE stack[i - 1].fork

\* C8: at every position of the input, a failed text, block, Dash, Colon,
\* path or attribute attempt and the close-tag probe of has_children leave
\* the cursor where it was, and a successful attempt leaves it at the end of
\* what it matched; the cursor of the caller of element does not move while
\* element runs, and a step of node that fails leaves the cursor of the
\* innermost call where it was.
C8_FailedAttemptsKeepCursor ==
  /\ [](\A p \in Positions : AttemptsAt(p))
  /\ [](CallersKeepCursor)
  /\ [][(status = "run" /\ status' = "err") =>
          (Cur' = Cur /\ Len(stack') = Len(stack))]_vars

C8_Witness ==
  /\ status = "err" /\ err = InvalidNodeName
  /\ Len(stack) = 1 /\ Top.fork > Top.input /\ cursor = 1

\* One pass of the loop of tag_open at q takes a token unless it ends the
\* loop; one pass of the loop of attributes at q takes a token unless it
\* ends the loop.
LoopsAdvanceAt(q) ==
  /\ \/ tag_open_end(tokens, q).ok
     \/ is_empty(tokens, tag_open_end(tokens, q).pos)
     \/ tag_open_end(tokens, q).pos + 1 > q
  /\ attribute(tokens, q).ok => attribute(tokens, q).pos > q

\* C10: parse returns on every input, with flatten and without: a pass of
\* the loop of parse or of element moves the cursor of the innermost call
\* forward or ends parse, as do the passes of the loops of tag_open and of
\* attributes; no cursor passes the end of the input, and when parse
\* succeeds its cursor is at the end.
C10_ParseTerminates ==
  /\ [][(status = "run" /\ status' = "run") => Cur' > Cur]_vars
  /\ [](Cur <= Len(tokens) + 1)
  /\ [](status = "ok" => cursor = Len(tokens) + 1)
  /\ [](\A q \in Positions : LoopsAdvanceAt(q))

C10_Witness ==
  /\ run = 2 /\ status = "ok" /\ flatten
  /\ Len(result) > 2 /\ cursor = Len(tokens) + 1

====
